---- MODULE Spec2Model ----
(***************************************************************************)
(* A model of @savvy-web/commitlint: the versioning-strategy classifier,   *)
(* the tag formatter, the release-format mapper and the configuration      *)
(* factory.  Strings the code inspects character by character are          *)
(* sequences of one-character strings; optional values (undefined / null)  *)
(* are sequences of length zero or one.                                    *)
(***************************************************************************)
EXTENDS Integers, Sequences, FiniteSets, TLC

VARIABLES
    workspace,          \* package.json of every workspace package of the repository
    changesetFile,      \* .changeset/config.json of the repository, when present
    rootPackagePrivate, \* "private": true in the root package.json
    dcoFiles,           \* the directories that hold a file named DCO
    env,                \* the process environment
    verCall,            \* the last versioning detection call and its outcome
    tagCall,            \* the getPackageTag call and its result
    cfgCall,            \* the createConfig call and its result
    dcoCall,            \* the detectDCO call and its result
    ruleCall,           \* the commit a rule evaluator is given and its result
    evaluated,          \* the results the rule evaluators have returned so far
    regexLastIndex,     \* lastIndex of the global pattern MARKDOWN_PATTERNS.inlineCode
    hookFile,           \* .husky/commit-msg, when present
    configFiles,        \* the file at each config path, when present
    dirs,               \* the directories that exist
    cliCall,            \* the last command of the command line and its outcome
    promptCall          \* the prompter call: its promise, answers and commit calls

repoVars == <<workspace, changesetFile, rootPackagePrivate, dcoFiles, env>>

cliVars == <<hookFile, configFiles, dirs, cliCall>>

restVars == <<cliVars, promptCall>>

vars == <<workspace, changesetFile, rootPackagePrivate, dcoFiles, env, verCall, tagCall, cfgCall,
          dcoCall, ruleCall, evaluated, regexLastIndex, hookFile, configFiles, dirs, cliCall,
          promptCall>>

(* Bounds of the model. *)
MaxPkgs == 2
MaxGroups == 2

(* Optional values. *)
None == <<>>
Some(v) == <<v>>
IsSome(m) == Len(m) = 1
Get(m) == m[1]

SeqsUpTo(S, n) == UNION {[1..k -> S] : k \in 0..n}

(* Package names used as inputs. *)
NameA == <<"@", "s", "/", "a">>
NameB == <<"@", "s", "/", "b">>
NamePkg == <<"p", "k", "g">>
NameExtra == <<"e", "x">>
NoName == <<>>

(* package.json contents of a workspace package, as getAllWorkspacePackages reads them. *)
PublicJson(n) == [name |-> n, private |-> FALSE, access |-> None, targets |-> None]
PrivateJson(n) == [name |-> n, private |-> TRUE, access |-> None, targets |-> None]
AccessJson(n) == [name |-> n, private |-> TRUE, access |-> Some("public"), targets |-> None]
TargetsJson(n, k) == [name |-> n, private |-> TRUE, access |-> None, targets |-> Some(k)]

PackageJsons ==
    {PublicJson(n) : n \in {NameA, NameB, NamePkg}}
        \cup {PrivateJson(NamePkg), AccessJson(NameB), TargetsJson(NamePkg, 2),
              TargetsJson(NameB, 0), PublicJson(NoName)}

(* .changeset/config.json contents. *)
GroupChoices == {<<NameA, NameB>>, <<NamePkg, NameB, NameA, NameExtra>>, <<NameA>>}

ChangesetConfigs ==
    {[fixed |-> None, linked |-> None], [fixed |-> None, linked |-> Some(<<<<NameA, NameB>>>>)]}
        \cup {[fixed |-> Some(f), linked |-> None] : f \in SeqsUpTo(GroupChoices, MaxGroups)}

(* Working directories: inside a repository, outside any repository (the     *)
(* lookup throws), and a directory for which the lookup returns no root.     *)
Cwds == {"repo", "outside", "noroot"}

(* The same, and a package directory below the root of the repository. *)
DcoCwds == Cwds \cup {"sub"}

(* findProjectRoot of workspace-tools: the root, no root, or an exception. *)
findProjectRoot(cwd) ==
    CASE cwd \in {"repo", "sub"} -> [threw |-> FALSE, root |-> Some("/repo")]
      [] cwd = "noroot" -> [threw |-> FALSE, root |-> None]
      [] OTHER -> [threw |-> TRUE, root |-> None]

Range(s) == {s[i] : i \in 1..Len(s)}

readChangesetConfig(file) == file

toPackageInfo(pkgJson) ==
    LET hasPublishConfig == IsSome(pkgJson.access)
        targetCount == IF IsSome(pkgJson.targets) THEN Get(pkgJson.targets)
                       ELSE IF hasPublishConfig THEN 1 ELSE 0
    IN  [name |-> pkgJson.name,
         private |-> pkgJson.private,
         hasPublishConfig |-> hasPublishConfig,
         access |-> pkgJson.access,
         targetCount |-> targetCount]

RECURSIVE getAllWorkspacePackages(_)
getAllWorkspacePackages(ws) ==
    IF ws = <<>> THEN <<>>
    ELSE IF Head(ws).name = NoName THEN getAllWorkspacePackages(Tail(ws))
    ELSE <<toPackageInfo(Head(ws))>> \o getAllWorkspacePackages(Tail(ws))

isRootPackagePrivate(rootPrivate) == rootPrivate

(* Variant: the private flag read without its negation. *)
isPackagePublishable_PrivateCounts(pkg) ==
    pkg.hasPublishConfig \/ pkg.targetCount > 0 \/ pkg.private

isPackagePublishable(pkg) == pkg.hasPublishConfig \/ pkg.targetCount > 0 \/ ~pkg.private

RECURSIVE filterPublishablePackages(_)
filterPublishablePackages(packages) ==
    IF packages = <<>> THEN <<>>
    ELSE IF isPackagePublishable(Head(packages))
    THEN <<Head(packages)>> \o filterPublishablePackages(Tail(packages))
    ELSE filterPublishablePackages(Tail(packages))

(* Variant: a group qualifies only when it equals the publishable names. *)
RECURSIVE FirstContaining_Exact(_, _)
FirstContaining_Exact(names, groups) ==
    IF groups = <<>> THEN None
    ELSE IF names = Range(Head(groups)) THEN Some(Head(groups))
    ELSE FirstContaining_Exact(names, Tail(groups))

(* Variant: a group qualifies when it holds some publishable name. *)
RECURSIVE FirstContaining_Some(_, _)
FirstContaining_Some(names, groups) ==
    IF groups = <<>> THEN None
    ELSE IF \E n \in names : n \in Range(Head(groups)) THEN Some(Head(groups))
    ELSE FirstContaining_Some(names, Tail(groups))

RECURSIVE FirstContaining(_, _)
FirstContaining(names, groups) ==
    IF groups = <<>> THEN None
    ELSE IF \A n \in names : n \in Range(Head(groups)) THEN Some(Head(groups))
    ELSE FirstContaining(names, Tail(groups))

findContainingFixedGroup(publishableNames, config) ==
    IF ~IsSome(config) THEN None
    ELSE IF ~IsSome(Get(config).fixed) THEN None
    ELSE FirstContaining(publishableNames, Get(Get(config).fixed))

classify(allPackages, changesetConfig, rootPrivate) ==
    LET publishablePackages == filterPublishablePackages(allPackages)
        isMonorepo == Len(allPackages) > 1
        publishableNames == {p.name : p \in Range(publishablePackages)}
        fixedGroup == findContainingFixedGroup(publishableNames, changesetConfig)
        base == [allPackages |-> allPackages,
                 publishablePackages |-> publishablePackages,
                 changesetConfig |-> changesetConfig,
                 isMonorepo |-> isMonorepo,
                 isRootPrivate |-> rootPrivate]
    IN  IF Len(publishablePackages) <= 1
        THEN base @@ [type |-> "single", needsPerPackageTags |-> FALSE, fixedGroup |-> None,
                      explanation |-> IF Len(publishablePackages) = 0
                                      THEN "No publishable packages found"
                                      ELSE "Single publishable package"]
        ELSE IF IsSome(fixedGroup)
        THEN base @@ [type |-> "fixed-group", needsPerPackageTags |-> FALSE,
                      fixedGroup |-> fixedGroup,
                      explanation |-> "All publishable packages are in a fixed version group"]
        ELSE base @@ [type |-> "independent", needsPerPackageTags |-> TRUE,
                      fixedGroup |-> None,
                      explanation |-> "Publishable packages with independent/linked versioning"]

(* Variant: an empty fixed group instead of none. *)
NoRootStrategy_EmptyGroup ==
    [type |-> "single", needsPerPackageTags |-> FALSE, allPackages |-> <<>>,
     publishablePackages |-> <<>>, changesetConfig |-> None, fixedGroup |-> Some(<<>>),
     isMonorepo |-> FALSE, isRootPrivate |-> FALSE, explanation |-> "No project root found"]

NoRootStrategy ==
    [type |-> "single", needsPerPackageTags |-> FALSE, allPackages |-> <<>>,
     publishablePackages |-> <<>>, changesetConfig |-> None, fixedGroup |-> None,
     isMonorepo |-> FALSE, isRootPrivate |-> FALSE, explanation |-> "No project root found"]

(* Variant: the lookup error turned into "no root", as the soft-failing      *)
(* detectors do.                                                             *)
detectVersioningStrategy_SoftFail(cwd, ws, file, rootPrivate) ==
    LET root == IF findProjectRoot(cwd).threw THEN None ELSE findProjectRoot(cwd).root
    IN  IF ~IsSome(root) THEN [threw |-> FALSE, strategy |-> Some(NoRootStrategy)]
        ELSE [threw |-> FALSE,
              strategy |-> Some(classify(getAllWorkspacePackages(ws),
                                         readChangesetConfig(file),
                                         isRootPackagePrivate(rootPrivate)))]

(* Variant: no early return when the lookup gives no root. *)
detectVersioningStrategy_NoEarlyReturn(cwd, ws, file, rootPrivate) ==
    LET found == findProjectRoot(cwd)
    IN  IF found.threw THEN [threw |-> TRUE, strategy |-> None]
        ELSE [threw |-> FALSE,
              strategy |-> Some(classify(getAllWorkspacePackages(ws),
                                         readChangesetConfig(file),
                                         isRootPackagePrivate(rootPrivate)))]

(* The outcome of detectVersioningStrategy(cwd) on a file-system snapshot. *)
detectVersioningStrategy(cwd, ws, file, rootPrivate) ==
    LET found == findProjectRoot(cwd)
    IN  IF found.threw THEN [threw |-> TRUE, strategy |-> None]
        ELSE IF ~IsSome(found.root) THEN [threw |-> FALSE, strategy |-> Some(NoRootStrategy)]
        ELSE [threw |-> FALSE,
              strategy |-> Some(classify(getAllWorkspacePackages(ws),
                                         readChangesetConfig(file),
                                         isRootPackagePrivate(rootPrivate)))]

(* Variant: independent repositories mapped to the scoped format. *)
STRATEGY_TO_FORMAT_Scoped(type) ==
    CASE type = "single" -> "semver"
      [] type = "fixed-group" -> "semver"
      [] type = "independent" -> "scoped"

STRATEGY_TO_FORMAT(type) ==
    CASE type = "single" -> "semver"
      [] type = "fixed-group" -> "semver"
      [] type = "independent" -> "packages"

detectReleaseFormat(cwd, ws, file, rootPrivate) ==
    LET r == detectVersioningStrategy(cwd, ws, file, rootPrivate)
    IN  IF r.threw THEN [threw |-> TRUE, format |-> None]
        ELSE [threw |-> FALSE, format |-> Some(STRATEGY_TO_FORMAT(Get(r.strategy).type))]


(* getPackageTag: template strings are concatenations of character sequences. *)
startsWith(str, ch) == Len(str) >= 1 /\ str[1] = ch

(* Variant: every per-package tag gets the "@v" separator. *)
getPackageTag_NoScopeCheck(packageName, version, strategy) ==
    IF ~strategy.needsPerPackageTags THEN <<"v">> \o version
    ELSE packageName \o <<"@", "v">> \o version

getPackageTag(packageName, version, strategy) ==
    IF ~strategy.needsPerPackageTags THEN <<"v">> \o version
    ELSE IF startsWith(packageName, "@") THEN packageName \o <<"@">> \o version
    ELSE packageName \o <<"@", "v">> \o version

(* safelyFindProjectRoot: the lookup with every exception turned into "no root". *)
safelyFindProjectRoot(cwd) ==
    LET found == findProjectRoot(cwd)
    IN  IF found.threw THEN None ELSE found.root

(* The directory a working directory names. *)
DirOf(cwd) ==
    CASE cwd = "repo" -> "/repo"
      [] cwd = "sub" -> "/repo/packages/a"
      [] cwd = "noroot" -> "/noroot"
      [] OTHER -> "/outside"

(* Variant: nothing is looked up when no root is found. *)
detectDCO_RootOnly(cwd, files) ==
    LET repoRoot == safelyFindProjectRoot(cwd)
    IN  IsSome(repoRoot) /\ Get(repoRoot) \in files

detectDCO(cwd, files) ==
    LET repoRoot == safelyFindProjectRoot(cwd)
        searchDir == IF IsSome(repoRoot) THEN Get(repoRoot) ELSE DirOf(cwd)
    IN  searchDir \in files

(* String.prototype.split("/")[1]: the text between the first and the second slash. *)
RECURSIVE TakeUntil(_, _)
TakeUntil(str, ch) ==
    IF str = <<>> \/ Head(str) = ch THEN <<>>
    ELSE <<Head(str)>> \o TakeUntil(Tail(str), ch)

RECURSIVE DropThrough(_, _)
DropThrough(str, ch) ==
    IF str = <<>> THEN None
    ELSE IF Head(str) = ch THEN Some(Tail(str))
    ELSE DropThrough(Tail(str), ch)

extractScopeName(name) ==
    IF startsWith(name, "@")
    THEN LET rest == DropThrough(name, "/")
         IN  IF IsSome(rest) THEN Some(TakeUntil(Get(rest), "/")) ELSE None
    ELSE Some(name)

(* Array.prototype.sort() without a comparator orders strings by UTF-16 code units. *)
CodeUnits == <<"/", "0", "1", "2", "@", "a", "b", "c", "d", "e", "g", "i", "k", "l", "o",
               "p", "s", "v", "x">>

CodeOf(ch) == CHOOSE i \in 1..Len(CodeUnits) : CodeUnits[i] = ch

RECURSIVE StrLess(_, _)
StrLess(a, b) ==
    IF b = <<>> THEN FALSE
    ELSE IF a = <<>> THEN TRUE
    ELSE IF Head(a) = Head(b) THEN StrLess(Tail(a), Tail(b))
    ELSE CodeOf(Head(a)) < CodeOf(Head(b))

RECURSIVE InsertSorted(_, _)
InsertSorted(x, sorted) ==
    IF sorted = <<>> THEN <<x>>
    ELSE IF StrLess(Head(sorted), x) \/ Head(sorted) = x
    THEN <<Head(sorted)>> \o InsertSorted(x, Tail(sorted))
    ELSE <<x>> \o sorted

RECURSIVE sort(_)
sort(arr) == IF arr = <<>> THEN <<>> ELSE InsertSorted(Head(arr), sort(Tail(arr)))

(* [...new Set(arr)]: the first occurrence of every element, in order. *)
RECURSIVE uniqueInOrder(_, _)
uniqueInOrder(arr, seen) ==
    IF arr = <<>> THEN <<>>
    ELSE IF Head(arr) \in seen THEN uniqueInOrder(Tail(arr), seen)
    ELSE <<Head(arr)>> \o uniqueInOrder(Tail(arr), seen \cup {Head(arr)})

RECURSIVE scopeNamesOf(_)
scopeNamesOf(ws) ==
    IF ws = <<>> THEN <<>>
    ELSE LET name == Head(ws).name
             scopeName == extractScopeName(name)
         IN  IF name = NoName THEN scopeNamesOf(Tail(ws))
             ELSE IF IsSome(scopeName) /\ Get(scopeName) # <<>>
             THEN <<Get(scopeName)>> \o scopeNamesOf(Tail(ws))
             ELSE scopeNamesOf(Tail(ws))

detectScopes(cwd, ws) ==
    IF ~IsSome(safelyFindProjectRoot(cwd)) THEN <<>> ELSE sort(scopeNamesOf(ws))

(* The extended commit type list. *)
COMMIT_TYPES ==
    <<"ai", "feat", "fix", "docs", "style", "refactor", "perf", "test", "build", "ci",
      "chore", "revert", "release">>

OrElse(m, d) == IF IsSome(m) THEN Get(m) ELSE d

(* Variant: "||" in place of "??", so that dco: false falls through to detection. *)
resolveDco_Or(options, detectedDCO) == OrElse(options.dco, FALSE) \/ detectedDCO

resolveDco(options, detectedDCO) == OrElse(options.dco, detectedDCO)

resolveScopes(options, detectedScopes) == OrElse(options.scopes, detectedScopes)

mergeScopes(scopes, additionalScopes) == sort(uniqueInOrder(scopes \o additionalScopes, {}))

Rule(name, value) == name :> value

NoRule == <<>>

(* Variant: the default body length in place of the option. *)
baseRules_DefaultLength(options) ==
    Rule("body-max-line-length", <<2, "always", 300>>)
        @@ Rule("type-enum", <<2, "always", COMMIT_TYPES>>)
        @@ Rule("subject-case", <<0>>)

(* The rules every configuration has. *)
baseRules(options) ==
    Rule("body-max-line-length", <<2, "always", options.bodyMaxLineLength>>)
        @@ Rule("type-enum", <<2, "always", COMMIT_TYPES>>)
        @@ Rule("subject-case", <<0>>)

(* Variant: the subject rule left out. *)
markdownRules_BodyOnly(options) ==
    IF options.noMarkdown THEN Rule("silk/body-no-markdown", <<2, "always">>) ELSE NoRule

markdownRules(options) ==
    IF options.noMarkdown
    THEN Rule("silk/body-no-markdown", <<2, "always">>)
             @@ Rule("silk/subject-no-markdown", <<2, "always">>)
    ELSE NoRule

(* Variant: sort() called on options.scopes itself. *)
optionsAfterCreateConfig_SortsScopes(options) ==
    [options EXCEPT !.scopes = IF IsSome(@) THEN Some(sort(Get(@))) ELSE @]

(* The options object after the call: the scopes are spread into a new      *)
(* array, which is the one sort() works on, and nothing is assigned to a    *)
(* field of options.                                                        *)
optionsAfterCreateConfig(options) == options

createConfig(options, ws, files) ==
    LET cwd == options.cwd
        dco == resolveDco(options, detectDCO(cwd, files))
        detectedScopes == detectScopes(cwd, ws)
        scopes == resolveScopes(options, detectedScopes)
        allScopes == mergeScopes(scopes, OrElse(options.additionalScopes, <<>>))
        rules ==
            baseRules(options)
                @@ (IF Len(allScopes) > 0 THEN Rule("scope-enum", <<2, "always", allScopes>>)
                    ELSE NoRule)
                @@ (IF dco THEN Rule("silk/signed-off-by", <<2, "always">>) ELSE NoRule)
                @@ markdownRules(options)
    IN  [extends |-> <<"@commitlint/config-conventional">>,
         plugins |-> <<"silkPlugin">>,
         rules |-> rules,
         prompt |-> [settings |-> [enableMultipleScopes |-> TRUE, scopeEnumSeparator |-> ","]]]

(***************************************************************************)
(* Inputs.                                                                 *)
(***************************************************************************)
MaxScopes == 2
MaxAdditional == 1

ScopeApi == <<"a", "p", "i">>
ScopeCli == <<"c", "l", "i">>
ScopeDeps == <<"d", "e", "p", "s">>

Optional(S) == {None} \cup {Some(v) : v \in S}

ConfigOptions ==
    [dco : Optional(BOOLEAN),
     scopes : Optional(SeqsUpTo({ScopeApi, ScopeCli}, MaxScopes)),
     additionalScopes : Optional(SeqsUpTo({ScopeApi, ScopeDeps}, MaxAdditional)),
     bodyMaxLineLength : {300, 500},
     noMarkdown : BOOLEAN,
     cwd : {"repo", "outside"}]

Environments == [COMMITLINT_SKIP_DCO : {None, Some("1")}]

(* The skip-signoff signal of the process environment. *)
envSkipDCO == IsSome(env.COMMITLINT_SKIP_DCO)

TagNames == {NameA, NamePkg, <<"@">>, <<>>}
TagVersions == {<<"1", ".", "0">>, <<"2", ".", "0", "@", "1">>, <<>>}
TagStrategies ==
    {[NoRootStrategy EXCEPT !.type = t, !.needsPerPackageTags = b] :
        t \in {"single", "fixed-group", "independent"}, b \in BOOLEAN}

NoCall == [op |-> "none", cwd |-> "repo", threw |-> FALSE, strategy |-> None, format |-> None]
NoTagCall == [done |-> FALSE, name |-> <<>>, version |-> <<>>, strategy |-> NoRootStrategy,
              tag |-> None]
NoCfgCall == [done |-> FALSE,
              options |-> [dco |-> None, scopes |-> None, additionalScopes |-> None,
                           bodyMaxLineLength |-> 300, noMarkdown |-> TRUE, cwd |-> "repo"],
              config |-> None, previous |-> None, calls |-> 0]

NoDcoCall == [done |-> FALSE, cwd |-> "repo", result |-> None]

(* A parsed commit, reduced to the fields the rule evaluators read. *)
EmptyCommit == [body |-> None, subject |-> None, raw |-> None]

NoRuleCall == [done |-> FALSE, rule |-> "none", commit |-> EmptyCommit,
               result |-> [threw |-> FALSE, valid |-> TRUE, message |-> ""]]

(* The config paths given to init: two relative ones, an absolute one and   *)
(* a relative one with a double quote in it.                                *)
PathA == <<"a">>
PathLibA == <<"l", "/", "a">>
PathAbsolute == <<"/", "a">>
PathQuoted == <<"a", "\"", "b">>
ConfigPaths == {PathA, PathLibA, PathAbsolute, PathQuoted}

NoCliCall == [cmd |-> "none", force |-> FALSE, config |-> PathA, before |-> None,
              failed |-> FALSE, report |-> "none", runs |-> 0]

NoPromptCall == [promise |-> "none", then |-> "none", catch |-> "none", answers |-> None,
                 commitThrows |-> FALSE, commits |-> <<>>]

(* Nothing of the command line, the prompter or earlier evaluations. *)
IdleRest ==
    /\ evaluated = <<>>
    /\ regexLastIndex = 0
    /\ hookFile = None
    /\ configFiles = [path \in ConfigPaths |-> None]
    /\ dirs = {}
    /\ cliCall = NoCliCall
    /\ promptCall = NoPromptCall

EmptyRepo ==
    /\ workspace = <<>>
    /\ changesetFile = None
    /\ rootPackagePrivate = FALSE
    /\ dcoFiles = {}
    /\ env = [COMMITLINT_SKIP_DCO |-> None]

(***************************************************************************)
(* Versioning detection on a repository snapshot.                          *)
(***************************************************************************)
InitVersioning ==
    /\ workspace \in SeqsUpTo(PackageJsons, MaxPkgs)
    /\ changesetFile \in Optional(ChangesetConfigs)
    /\ rootPackagePrivate \in BOOLEAN
    /\ dcoFiles = {}
    /\ env = [COMMITLINT_SKIP_DCO |-> None]
    /\ verCall = NoCall
    /\ tagCall = NoTagCall
    /\ cfgCall = NoCfgCall
    /\ dcoCall = NoDcoCall
    /\ ruleCall = NoRuleCall
    /\ IdleRest

DetectVersioningStrategy(cwd) ==
    LET r == detectVersioningStrategy(cwd, workspace, changesetFile, rootPackagePrivate)
    IN  /\ verCall' = [op |-> "detectVersioningStrategy", cwd |-> cwd, threw |-> r.threw,
                       strategy |-> r.strategy, format |-> None]
        /\ UNCHANGED <<repoVars, tagCall, cfgCall, dcoCall, ruleCall, evaluated, regexLastIndex, restVars>>

DetectReleaseFormat(cwd) ==
    LET r == detectReleaseFormat(cwd, workspace, changesetFile, rootPackagePrivate)
    IN  /\ verCall' = [op |-> "detectReleaseFormat", cwd |-> cwd, threw |-> r.threw,
                       strategy |-> None, format |-> r.format]
        /\ UNCHANGED <<repoVars, tagCall, cfgCall, dcoCall, ruleCall, evaluated, regexLastIndex, restVars>>

NextVersioning ==
    \/ \E cwd \in Cwds : DetectVersioningStrategy(cwd)
    \/ \E cwd \in Cwds : DetectReleaseFormat(cwd)

SpecVersioning == InitVersioning /\ [][NextVersioning]_vars

(***************************************************************************)
(* Tag formatting.                                                         *)
(***************************************************************************)
InitTag ==
    /\ EmptyRepo
    /\ verCall = NoCall
    /\ cfgCall = NoCfgCall
    /\ dcoCall = NoDcoCall
    /\ ruleCall = NoRuleCall
    /\ IdleRest
    /\ tagCall \in [done : {FALSE}, name : TagNames, version : TagVersions,
                    strategy : TagStrategies, tag : {None}]

GetPackageTag ==
    /\ ~tagCall.done
    /\ tagCall' = [tagCall EXCEPT
                       !.done = TRUE,
                       !.tag = Some(getPackageTag(tagCall.name, tagCall.version,
                                                  tagCall.strategy))]
    /\ UNCHANGED <<repoVars, verCall, cfgCall, dcoCall, ruleCall, evaluated, regexLastIndex, restVars>>

NextTag == GetPackageTag

SpecTag == InitTag /\ [][NextTag]_vars

(***************************************************************************)
(* Configuration synthesis.                                                *)
(***************************************************************************)
InitConfig ==
    /\ workspace \in {<<>>, <<PublicJson(NamePkg), PublicJson(NameA)>>}
    /\ changesetFile = None
    /\ rootPackagePrivate = FALSE
    /\ dcoFiles \in SUBSET {"/repo", "/outside"}
    /\ env \in Environments
    /\ verCall = NoCall
    /\ tagCall = NoTagCall
    /\ cfgCall \in [done : {FALSE}, options : ConfigOptions, config : {None},
                    previous : {None}, calls : {0}]
    /\ dcoCall = NoDcoCall
    /\ ruleCall = NoRuleCall
    /\ IdleRest

CreateConfig ==
    /\ ~cfgCall.done
    /\ cfgCall' = [cfgCall EXCEPT
                       !.done = TRUE,
                       !.calls = 1,
                       !.options = optionsAfterCreateConfig(cfgCall.options),
                       !.config = Some(createConfig(cfgCall.options, workspace, dcoFiles))]
    /\ UNCHANGED <<repoVars, verCall, tagCall, dcoCall, ruleCall, evaluated, regexLastIndex, restVars>>

NextConfig == CreateConfig

SpecConfig == InitConfig /\ [][NextConfig]_vars

(* A further call with the options object of the call before, in the same  *)
(* repository.                                                             *)
MaxConfigCalls == 2

CreateConfigAgain ==
    /\ cfgCall.done
    /\ cfgCall.calls < MaxConfigCalls
    /\ cfgCall' = [cfgCall EXCEPT
                       !.calls = @ + 1,
                       !.options = optionsAfterCreateConfig(cfgCall.options),
                       !.previous = cfgCall.config,
                       !.config = Some(createConfig(cfgCall.options, workspace, dcoFiles))]
    /\ UNCHANGED <<repoVars, verCall, tagCall, dcoCall, ruleCall, evaluated, regexLastIndex, restVars>>

NextConfigTwice == CreateConfig \/ CreateConfigAgain

SpecConfigTwice == InitConfig /\ [][NextConfigTwice]_vars

(***************************************************************************)
(* Properties of the versioning classifier.  The expected values are       *)
(* computed from the package.json and changeset contents directly.         *)
(***************************************************************************)
PublishableJson(j) ==
    /\ j.name # NoName
    /\ (IsSome(j.access) \/ (IsSome(j.targets) /\ Get(j.targets) > 0) \/ ~j.private)

PublishableIdx == {i \in DOMAIN workspace : PublishableJson(workspace[i])}

PublishableNameSet == {workspace[i].name : i \in PublishableIdx}

FixedGroups ==
    IF IsSome(changesetFile) /\ IsSome(Get(changesetFile).fixed)
    THEN Get(Get(changesetFile).fixed) ELSE <<>>

CoveringIdx == {i \in DOMAIN FixedGroups : PublishableNameSet \subseteq Range(FixedGroups[i])}

Min(S) == CHOOSE x \in S : \A y \in S : x <= y

StrategyReturned == verCall.op = "detectVersioningStrategy" /\ ~verCall.threw

ClassifiedRepo == StrategyReturned /\ verCall.cwd = "repo"

Result == Get(verCall.strategy)

RECURSIVE IsSubList(_, _)
IsSubList(a, b) ==
    IF a = <<>> THEN TRUE
    ELSE IF b = <<>> THEN FALSE
    ELSE IF Head(a) = Head(b) THEN IsSubList(Tail(a), Tail(b))
    ELSE IsSubList(a, Tail(b))

(* C1: whenever at most one workspace package is publishable, the detected   *)
(* strategy has type single and needs no per-package tags, whatever the      *)
(* changeset configuration contains.                                         *)
C1_SingleWhenAtMostOnePublishable ==
    (StrategyReturned /\ Cardinality(PublishableIdx) <= 1)
        => (Result.type = "single" /\ Result.needsPerPackageTags = FALSE)

C1_Witness ==
    /\ ClassifiedRepo
    /\ Cardinality(PublishableIdx) = 1
    /\ CoveringIdx # {}
    /\ Result.type = "single"

(* C2: with two or more publishable packages and a fixed group that contains *)
(* every publishable name, the strategy is fixed-group, needs no per-package *)
(* tags, and fixedGroup is the first such group of the configuration.        *)
C2_FixedGroupWhenCovered ==
    (ClassifiedRepo /\ Cardinality(PublishableIdx) >= 2 /\ CoveringIdx # {})
        => /\ Result.type = "fixed-group"
           /\ Result.needsPerPackageTags = FALSE
           /\ Result.fixedGroup = Some(FixedGroups[Min(CoveringIdx)])

C2_Witness ==
    /\ ClassifiedRepo
    /\ Cardinality(PublishableIdx) >= 2
    /\ Cardinality(CoveringIdx) = 2
    /\ FixedGroups[1] # FixedGroups[2]
    /\ Range(FixedGroups[1]) # PublishableNameSet
    /\ Result.fixedGroup = Some(FixedGroups[1])

(* C3: with two or more publishable packages and no fixed group that is a    *)
(* superset of the publishable names, the strategy is independent and needs  *)
(* per-package tags.                                                         *)
C3_IndependentWhenNotCovered ==
    (ClassifiedRepo /\ Cardinality(PublishableIdx) >= 2 /\ CoveringIdx = {})
        => (Result.type = "independent" /\ Result.needsPerPackageTags = TRUE)

C3_Witness ==
    /\ ClassifiedRepo
    /\ Cardinality(PublishableIdx) >= 2
    /\ IsSome(changesetFile)
    /\ ~IsSome(Get(changesetFile).fixed)
    /\ IsSome(Get(changesetFile).linked)
    /\ Result.type = "independent"

(* C4: every strategy record returned, on every return path, has its         *)
(* publishable packages as a sub-list of all packages, a fixed group exactly *)
(* when the type is fixed-group, per-package tags exactly when the type is   *)
(* independent, and type single whenever at most one package is publishable. *)
C4_StrategyRecordInvariants ==
    StrategyReturned
        => /\ IsSubList(Result.publishablePackages, Result.allPackages)
           /\ IsSome(Result.fixedGroup) <=> (Result.type = "fixed-group")
           /\ Result.needsPerPackageTags <=> (Result.type = "independent")
           /\ Len(Result.publishablePackages) <= 1 => Result.type = "single"

C4_Witness ==
    /\ ClassifiedRepo
    /\ Len(workspace) = 2
    /\ Len(Result.allPackages) = 2
    /\ Result.publishablePackages = <<Result.allPackages[2]>>
    /\ Result.type = "single"
    /\ ~IsSome(Result.fixedGroup)
    /\ ~Result.needsPerPackageTags

(* C6: the release format is semver for single and fixed-group strategies    *)
(* and packages for independent ones; detectReleaseFormat returns the format *)
(* of the strategy detected for the same directory, and never "scoped".      *)
C6_ReleaseFormatMapping ==
    (verCall.op = "detectReleaseFormat" /\ ~verCall.threw)
        => /\ verCall.format =
                  Some(IF /\ verCall.cwd = "repo"
                          /\ Cardinality(PublishableIdx) >= 2
                          /\ CoveringIdx = {}
                       THEN "packages" ELSE "semver")
           /\ LET s == detectVersioningStrategy(verCall.cwd, workspace, changesetFile,
                                                rootPackagePrivate)
              IN  /\ ~s.threw
                  /\ Get(s.strategy).type \in {"single", "fixed-group", "independent"}
                  /\ Get(s.strategy).type \in {"single", "fixed-group"}
                         => verCall.format = Some("semver")
                  /\ Get(s.strategy).type = "independent"
                         => verCall.format = Some("packages")
           /\ verCall.format # Some("scoped")

C6_Witness ==
    /\ verCall.op = "detectReleaseFormat"
    /\ ~verCall.threw
    /\ verCall.format = Some("packages")
    /\ IsSome(changesetFile)

(***************************************************************************)
(* Properties of the tag formatter.                                        *)
(***************************************************************************)
Tag == Get(tagCall.tag)

(* C5: the tag is "v" + version when no per-package tags are needed,         *)
(* whatever the name; otherwise it is the name, then "@", then the version   *)
(* for a name starting with "@" and "v" + version for any other name.        *)
C5_PackageTagFormat ==
    tagCall.done
        => LET n == tagCall.name
               v == tagCall.version
               t == Tag
           IN  IF ~tagCall.strategy.needsPerPackageTags
               THEN /\ Len(t) = 1 + Len(v)
                    /\ t[1] = "v"
                    /\ SubSeq(t, 2, Len(t)) = v
               ELSE /\ Len(t) > Len(n)
                    /\ SubSeq(t, 1, Len(n)) = n
                    /\ t[Len(n) + 1] = "@"
                    /\ SubSeq(t, Len(n) + 2, Len(t)) =
                           (IF Len(n) > 0 /\ n[1] = "@" THEN v ELSE <<"v">> \o v)

C5_Witness ==
    /\ tagCall.done
    /\ tagCall.strategy.needsPerPackageTags
    /\ tagCall.name = NamePkg
    /\ Tag = <<"p", "k", "g", "@", "v", "1", ".", "0">>

(***************************************************************************)
(* Properties of the configuration factory.                                *)
(***************************************************************************)
Config == Get(cfgCall.config)

HasRule(name) == name \in DOMAIN Config.rules

OptionScopeSet ==
    Range(OrElse(cfgCall.options.scopes, <<>>))
        \cup Range(OrElse(cfgCall.options.additionalScopes, <<>>))

StrictlySorted(arr) == \A i \in 1..(Len(arr) - 1) : StrLess(arr[i], arr[i + 1])

(* C7: with neither scopes nor additionalScopes in the options, the          *)
(* configuration has no scope-enum rule, whatever the workspace contains.    *)
C7_UnrestrictedScopesByDefault ==
    (/\ cfgCall.done
     /\ ~IsSome(cfgCall.options.scopes)
     /\ ~IsSome(cfgCall.options.additionalScopes))
        => ~HasRule("scope-enum")

(* C8: when the skip-signoff signal is set, the configuration never has the  *)
(* signoff rule, even with dco: true or a detected DCO file.                 *)
C8_SkipSignalDisablesSignoff ==
    (cfgCall.done /\ envSkipDCO) => ~HasRule("silk/signed-off-by")

(* C9: without the skip signal, the effective dco is options.dco when it is  *)
(* supplied and the detected value otherwise, and the signoff rule is        *)
(* present, as [2, "always"], exactly when the effective dco is true.        *)
C9_SignoffRuleFollowsEffectiveDco ==
    (cfgCall.done /\ ~envSkipDCO)
        => LET dco == cfgCall.options.dco
               effective == IF dco = Some(TRUE) THEN TRUE
                            ELSE IF dco = Some(FALSE) THEN FALSE
                            ELSE detectDCO(cfgCall.options.cwd, dcoFiles)
           IN  /\ HasRule("silk/signed-off-by") <=> effective
               /\ effective => Config.rules["silk/signed-off-by"] = <<2, "always">>

C9_Witness ==
    /\ cfgCall.done
    /\ ~envSkipDCO
    /\ cfgCall.options.dco = Some(FALSE)
    /\ cfgCall.options.cwd = "repo"
    /\ "/repo" \in dcoFiles
    /\ ~HasRule("silk/signed-off-by")

(* C10: the scope-enum rule is present exactly when the union of             *)
(* options.scopes and options.additionalScopes is non-empty, and then it is  *)
(* [2, "always", S] with S that union, sorted and free of duplicates.        *)
C10_ScopeEnumIsSortedUnionOfOptions ==
    cfgCall.done
        => /\ HasRule("scope-enum") <=> (OptionScopeSet # {})
           /\ HasRule("scope-enum")
                  => LET rule == Config.rules["scope-enum"]
                     IN  /\ Len(rule) = 3
                         /\ rule[1] = 2
                         /\ rule[2] = "always"
                         /\ Range(rule[3]) = OptionScopeSet
                         /\ StrictlySorted(rule[3])

(* C11: every configuration has body-max-line-length = [2, "always", the     *)
(* bodyMaxLineLength option], type-enum = [2, "always", the extended type    *)
(* list] and subject-case = [0], and its prompt settings enable multiple     *)
(* scopes separated by ",".                                                  *)
C11_AlwaysEmittedRules ==
    cfgCall.done
        => /\ HasRule("body-max-line-length")
           /\ Config.rules["body-max-line-length"] =
                  <<2, "always", cfgCall.options.bodyMaxLineLength>>
           /\ HasRule("type-enum")
           /\ Config.rules["type-enum"] = <<2, "always", COMMIT_TYPES>>
           /\ HasRule("subject-case")
           /\ Config.rules["subject-case"] = <<0>>
           /\ Config.prompt.settings =
                  [enableMultipleScopes |-> TRUE, scopeEnumSeparator |-> ","]

C11_Witness ==
    /\ cfgCall.done
    /\ cfgCall.options.bodyMaxLineLength = 500
    /\ cfgCall.options.noMarkdown = FALSE
    /\ cfgCall.options.dco = Some(TRUE)
    /\ IsSome(cfgCall.options.scopes)
    /\ Config.rules["body-max-line-length"] = <<2, "always", 500>>

(* C12: the body and subject markdown rules are present, both as             *)
(* [2, "always"], exactly when the noMarkdown option is true, and never one  *)
(* without the other, whatever dco and the scopes are.                       *)
C12_MarkdownRulesFollowNoMarkdown ==
    cfgCall.done
        => /\ HasRule("silk/body-no-markdown") <=> cfgCall.options.noMarkdown
           /\ HasRule("silk/subject-no-markdown") <=> cfgCall.options.noMarkdown
           /\ cfgCall.options.noMarkdown
                  => /\ Config.rules["silk/body-no-markdown"] = <<2, "always">>
                     /\ Config.rules["silk/subject-no-markdown"] = <<2, "always">>

C12_Witness ==
    /\ cfgCall.done
    /\ cfgCall.options.noMarkdown
    /\ cfgCall.options.dco = Some(FALSE)
    /\ ~IsSome(cfgCall.options.scopes)
    /\ HasRule("silk/body-no-markdown")
    /\ HasRule("silk/subject-no-markdown")
    /\ ~HasRule("silk/signed-off-by")

(***************************************************************************)
(* Rule engine: the silk plugin's evaluators.  A text is a sequence of      *)
(* one-character strings.  A string of this language cannot hold a          *)
(* backquote or a character outside ASCII, so these two characters carry    *)
(* names.                                                                   *)
(***************************************************************************)
Backtick == "BACKTICK"
Bullet == "U+2022"

(* The characters of the regular expression classes \s, \d and the line    *)
(* terminators that "." excludes and that "^" and "$" stop at under /m.     *)
Whitespace == {" ", "\t", "\n", "\r", "\f"}
LineTerminators == {"\n", "\r"}
Digits == {"0", "1", "2", "3", "4", "5", "6", "7", "8", "9"}

UpperCase == <<"A", "B", "C", "D", "E", "F", "G", "H", "I", "J", "K", "L", "M",
               "N", "O", "P", "Q", "R", "S", "T", "U", "V", "W", "X", "Y", "Z">>
LowerCase == <<"a", "b", "c", "d", "e", "f", "g", "h", "i", "j", "k", "l", "m",
               "n", "o", "p", "q", "r", "s", "t", "u", "v", "w", "x", "y", "z">>

(* Case folding of the /i flag. *)
toLowerCase(ch) ==
    IF \E k \in 1..Len(UpperCase) : UpperCase[k] = ch
    THEN LowerCase[CHOOSE k \in 1..Len(UpperCase) : UpperCase[k] = ch]
    ELSE ch

(* The first position at or after i whose character is outside (inside) S. *)
RECURSIVE skipIn(_, _, _)
skipIn(text, i, S) ==
    IF i <= Len(text) /\ text[i] \in S THEN skipIn(text, i + 1, S) ELSE i

RECURSIVE skipNotIn(_, _, _)
skipNotIn(text, i, S) ==
    IF i <= Len(text) /\ text[i] \notin S THEN skipNotIn(text, i + 1, S) ELSE i

charIn(text, i, S) == i >= 1 /\ i <= Len(text) /\ text[i] \in S

(* "^" and "$" under the /m flag. *)
atLineStart(text, i) == i = 1 \/ charIn(text, i - 1, LineTerminators)
atLineEnd(text, i) == i = Len(text) + 1 \/ charIn(text, i, LineTerminators)

LineStarts(text) == {i \in 1..Len(text) : atLineStart(text, i)}

(* The literal lit at position i, exactly or with case folded. *)
literalAt(text, i, lit) ==
    /\ i + Len(lit) - 1 <= Len(text)
    /\ \A k \in 1..Len(lit) : text[i + k - 1] = lit[k]

literalAtIgnoreCase(text, i, lit) ==
    /\ i + Len(lit) - 1 <= Len(text)
    /\ \A k \in 1..Len(lit) : toLowerCase(text[i + k - 1]) = toLowerCase(lit[k])

(* MARKDOWN_PATTERNS.headers: ^#{1,6}\s under /m. *)
headers(text) ==
    \E i \in LineStarts(text) :
        LET j == skipIn(text, i, {"#"})
        IN  j - i >= 1 /\ j - i <= 6 /\ charIn(text, j, Whitespace)

(* MARKDOWN_PATTERNS.bullets: ^[\t ]*[-*]\s under /m. *)
bullets(text) ==
    \E i \in LineStarts(text) :
        LET j == skipIn(text, i, {"\t", " "})
        IN  charIn(text, j, {"-", "*"}) /\ charIn(text, j + 1, Whitespace)

(* Variant: the pattern without its "^". *)
numberedLists_Unanchored(text) ==
    \E i \in 1..Len(text) :
        LET j == skipIn(text, i, {"\t", " "})
            k == skipIn(text, j, Digits)
        IN  k > j /\ charIn(text, k, {"."}) /\ charIn(text, k + 1, Whitespace)

(* MARKDOWN_PATTERNS.numberedLists: ^[\t ]*\d+\.\s under /m. *)
numberedLists(text) ==
    \E i \in LineStarts(text) :
        LET j == skipIn(text, i, {"\t", " "})
            k == skipIn(text, j, Digits)
        IN  k > j /\ charIn(text, k, {"."}) /\ charIn(text, k + 1, Whitespace)

(* MARKDOWN_PATTERNS.codeFences: three backquotes in a row. *)
codeFences(text) ==
    \E i \in 1..Len(text) : literalAt(text, i, <<Backtick, Backtick, Backtick>>)

(* text.match(MARKDOWN_PATTERNS.inlineCode): the number of matches, found   *)
(* from left to right without overlap, of a backquote, one or more other    *)
(* characters and a backquote.                                              *)
RECURSIVE inlineCodeFrom(_, _)
inlineCodeFrom(text, i) ==
    IF i > Len(text) THEN 0
    ELSE IF text[i] # Backtick THEN inlineCodeFrom(text, i + 1)
    ELSE LET j == skipNotIn(text, i + 1, {Backtick})
         IN  IF j > i + 1 /\ j <= Len(text)
             THEN 1 + inlineCodeFrom(text, j + 1)
             ELSE inlineCodeFrom(text, i + 1)

(* The ends of the matches found from position i on. *)
RECURSIVE inlineCodeEnds(_, _)
inlineCodeEnds(text, i) ==
    IF i > Len(text) THEN <<>>
    ELSE IF text[i] # Backtick THEN inlineCodeEnds(text, i + 1)
    ELSE LET j == skipNotIn(text, i + 1, {Backtick})
         IN  IF j > i + 1 /\ j <= Len(text)
             THEN <<j>> \o inlineCodeEnds(text, j + 1)
             ELSE inlineCodeEnds(text, i + 1)

(* Variant: the pattern run match by match from where its last run stopped, *)
(* stopping at the third match, as a loop over RegExp.prototype.exec would. *)
matchInlineCode_FromLastIndex(text) ==
    LET ends == inlineCodeEnds(text, regexLastIndex + 1)
    IN  IF Len(ends) >= 3 THEN [count |-> 3, lastIndex |-> ends[3]]
        ELSE [count |-> Len(ends), lastIndex |-> 0]

(* String.prototype.match with a global pattern: the search starts at 0     *)
(* whatever lastIndex was, and leaves lastIndex at 0.                       *)
matchInlineCode(text) == [count |-> inlineCodeFrom(text, 1), lastIndex |-> 0]

inlineCode(text) == matchInlineCode(text).count

(* MARKDOWN_PATTERNS.bold: (\*\*|__)[^*_]+(\*\*|__). *)
boldMarkAt(text, i) ==
    literalAt(text, i, <<"*", "*">>) \/ literalAt(text, i, <<"_", "_">>)

bold(text) ==
    \E i \in 1..Len(text) :
        /\ boldMarkAt(text, i)
        /\ LET j == skipNotIn(text, i + 2, {"*", "_"})
           IN  j > i + 2 /\ boldMarkAt(text, j)

(* MARKDOWN_PATTERNS.links: \[.+?\]\(.+?\), where "." is any character but  *)
(* a line terminator.                                                       *)
links(text) ==
    \E i \in 1..Len(text) : \E j \in (i + 2)..Len(text) : \E k \in (j + 3)..Len(text) :
        /\ text[i] = "["
        /\ literalAt(text, j, <<"]", "(">>)
        /\ text[k] = ")"
        /\ \A m \in ((i + 1)..(j - 1)) \cup ((j + 2)..(k - 1)) :
               text[m] \notin LineTerminators

(* MARKDOWN_PATTERNS.horizontalRules: ^[-*_]{3,}$ under /m. *)
horizontalRules(text) ==
    \E i \in LineStarts(text) :
        LET j == skipIn(text, i, {"-", "*", "_"})
        IN  j - i >= 3 /\ atLineEnd(text, j)

(* Variant: two spans are already excessive. *)
excessiveInlineCode_TwoSpans(text) == inlineCode(text) >= 2

(* More than two matches of the inline code pattern. *)
excessiveInlineCode(text) == inlineCode(text) > 2

(* The labels of the patterns found.  Each label is the source's label up   *)
(* to its parenthesised example, which holds characters a string of this    *)
(* language cannot.                                                         *)
detectMarkdown(text) ==
    LET detected ==
            (IF headers(text) THEN <<"headers">> ELSE <<>>)
                \o (IF bullets(text) THEN <<"bullet lists">> ELSE <<>>)
                \o (IF numberedLists(text) THEN <<"numbered lists">> ELSE <<>>)
                \o (IF codeFences(text) THEN <<"code fences">> ELSE <<>>)
                \o (IF bold(text) THEN <<"bold">> ELSE <<>>)
                \o (IF links(text) THEN <<"links">> ELSE <<>>)
                \o (IF horizontalRules(text) THEN <<"horizontal rules">> ELSE <<>>)
                \o (IF excessiveInlineCode(text) THEN <<"excessive inline code">> ELSE <<>>)
    IN  [hasMarkdown |-> Len(detected) > 0, patterns |-> detected]

(* Array.prototype.join. *)
RECURSIVE join(_, _)
join(list, separator) ==
    IF Len(list) = 0 THEN ""
    ELSE IF Len(list) = 1 THEN list[1]
    ELSE list[1] \o separator \o join(Tail(list), separator)

(* What an evaluator produces: a pair (valid, message), or an exception. *)
Pass == [threw |-> FALSE, valid |-> TRUE, message |-> ""]
Fail(message) == [threw |-> FALSE, valid |-> FALSE, message |-> message]
Thrown == [threw |-> TRUE, valid |-> FALSE, message |-> "TypeError"]

(* A field that is present and not the empty string. *)
truthy(field) == IsSome(field) /\ Len(Get(field)) > 0

(* Variant: no early return, so that an absent body reaches text.match. *)
bodyNoMarkdown_NoGuard(commit) ==
    IF ~IsSome(commit.body) THEN Thrown
    ELSE LET found == detectMarkdown(Get(commit.body))
         IN  IF found.hasMarkdown
             THEN Fail("body contains markdown formatting: " \o join(found.patterns, ", "))
             ELSE Pass

bodyNoMarkdown(commit) ==
    IF ~truthy(commit.body) THEN Pass
    ELSE LET found == detectMarkdown(Get(commit.body))
         IN  IF found.hasMarkdown
             THEN Fail("body contains markdown formatting: " \o join(found.patterns, ", "))
             ELSE Pass

subjectNoMarkdown(commit) ==
    IF ~truthy(commit.subject) THEN Pass
    ELSE LET found == detectMarkdown(Get(commit.subject))
         IN  IF found.hasMarkdown
             THEN Fail("subject contains markdown formatting: " \o join(found.patterns, ", "))
             ELSE Pass

(* The list pattern of bodyProseOnly: ^[\t ]*(?:[-*<bullet>]|\d+[.):])\s    *)
(* under /m.                                                                *)
listPattern(text) ==
    \E i \in LineStarts(text) :
        LET j == skipIn(text, i, {"\t", " "})
            k == skipIn(text, j, Digits)
        IN  \/ charIn(text, j, {"-", "*", Bullet}) /\ charIn(text, j + 1, Whitespace)
            \/ k > j /\ charIn(text, k, {".", ")", ":"}) /\ charIn(text, k + 1, Whitespace)

(* Variant: only "." ends a number marker. *)
bodyProseOnly_DotOnly(commit) ==
    IF ~truthy(commit.body) THEN Pass
    ELSE IF numberedLists(Get(commit.body)) \/ bullets(Get(commit.body))
    THEN Fail("body should be prose paragraphs, not lists")
    ELSE Pass

bodyProseOnly(commit) ==
    IF ~truthy(commit.body) THEN Pass
    ELSE IF listPattern(Get(commit.body))
    THEN Fail("body should be prose paragraphs, not lists")
    ELSE Pass

SignedOffByLiteral ==
    <<"s", "i", "g", "n", "e", "d", "-", "o", "f", "f", "-", "b", "y", ":">>

(* The signoff pattern: ^signed-off-by:\s*.+$ under /im.  After the         *)
(* literal, \s* takes any run of whitespace, line terminators included,     *)
(* and .+ then needs one character that is no line terminator; it reaches   *)
(* the end of its line, where "$" holds.                                    *)
signoffPattern(text) ==
    \E i \in LineStarts(text) :
        /\ literalAtIgnoreCase(text, i, SignedOffByLiteral)
        /\ LET j == i + Len(SignedOffByLiteral)
           IN  \E k \in j..Len(text) :
                   /\ \A m \in j..(k - 1) : text[m] \in Whitespace
                   /\ text[k] \notin LineTerminators

signedOffBy(commit) ==
    IF ~truthy(commit.raw) THEN Fail("message must be signed off")
    ELSE IF signoffPattern(Get(commit.raw)) THEN Pass
    ELSE Fail("message must be signed off")

(***************************************************************************)
(* The evaluators as steps: each takes the commit it is given and leaves    *)
(* its result.                                                              *)
(***************************************************************************)
(* lastIndex of the global pattern after a rule has run: the two markdown   *)
(* rules run it on a field that is present and not empty.                   *)
lastIndexAfter(rule, commit) ==
    IF rule = "silk/body-no-markdown" /\ truthy(commit.body)
    THEN matchInlineCode(Get(commit.body)).lastIndex
    ELSE IF rule = "silk/subject-no-markdown" /\ truthy(commit.subject)
    THEN matchInlineCode(Get(commit.subject)).lastIndex
    ELSE regexLastIndex

Evaluate(rule, result) ==
    /\ ~ruleCall.done
    /\ ruleCall' = [ruleCall EXCEPT !.done = TRUE, !.rule = rule, !.result = result]
    /\ evaluated' = Append(evaluated, [rule |-> rule, commit |-> ruleCall.commit,
                                       result |-> result])
    /\ regexLastIndex' = lastIndexAfter(rule, ruleCall.commit)
    /\ UNCHANGED <<repoVars, verCall, tagCall, cfgCall, dcoCall, restVars>>

BodyNoMarkdown == Evaluate("silk/body-no-markdown", bodyNoMarkdown(ruleCall.commit))
SubjectNoMarkdown == Evaluate("silk/subject-no-markdown", subjectNoMarkdown(ruleCall.commit))
BodyProseOnly == Evaluate("silk/body-prose-only", bodyProseOnly(ruleCall.commit))
SignedOffBy == Evaluate("silk/signed-off-by", signedOffBy(ruleCall.commit))

IdleButRule ==
    /\ EmptyRepo
    /\ verCall = NoCall
    /\ tagCall = NoTagCall
    /\ cfgCall = NoCfgCall
    /\ dcoCall = NoDcoCall
    /\ IdleRest

(* The texts made of at most n pieces of a set of pieces. *)
RECURSIVE Flatten(_)
Flatten(pieces) == IF pieces = <<>> THEN <<>> ELSE Head(pieces) \o Flatten(Tail(pieces))

TextsOf(pieces, n) == {Flatten(ps) : ps \in SeqsUpTo(pieces, n)}

CommitsWith(field, texts) ==
    {[EmptyCommit EXCEPT ![field] = Some(text)] : text \in texts}

(* Markdown rules on bodies and subjects. *)
MaxMarkdownPieces == 3

MarkdownPieces ==
    {<<"\n">>, <<" ">>, <<"a">>, <<"-">>, <<"*">>, <<"1">>, <<"1", ".">>, <<"#">>,
     <<Backtick, "a", Backtick>>, <<Backtick, "a", Backtick, Backtick, "b", Backtick>>,
     <<Backtick, Backtick, Backtick>>, <<"*", "*", "b", "*", "*">>,
     <<"[", "t", "]", "(", "u", ")">>}

InitMarkdown ==
    /\ IdleButRule
    /\ \E commit \in CommitsWith("body", TextsOf(MarkdownPieces, MaxMarkdownPieces))
                        \cup CommitsWith("subject", TextsOf(MarkdownPieces, MaxMarkdownPieces)) :
           ruleCall = [NoRuleCall EXCEPT !.commit = commit]

NextMarkdown == BodyNoMarkdown \/ SubjectNoMarkdown

SpecMarkdown == InitMarkdown /\ [][NextMarkdown]_vars

(* The prose rule on bodies. *)
MaxProsePieces == 4

ProsePieces ==
    {<<"\n">>, <<" ">>, <<"\t">>, <<"a">>, <<"-">>, <<"*">>, <<Bullet>>, <<"1">>,
     <<".">>, <<")">>, <<":">>}

InitProse ==
    /\ IdleButRule
    /\ \E commit \in CommitsWith("body", TextsOf(ProsePieces, MaxProsePieces)) :
           ruleCall = [NoRuleCall EXCEPT !.commit = commit]

NextProse == BodyProseOnly

SpecProse == InitProse /\ [][NextProse]_vars

(* The signoff rule on raw messages: a header, trailers in three casings,   *)
(* a value, another trailer, blanks and line ends.                          *)
MaxSignoffPieces == 4

SignoffPieces ==
    {<<"f", "i", "x">>,
     <<"S", "i", "g", "n", "e", "d", "-", "o", "f", "f", "-", "b", "y", ":">>,
     SignedOffByLiteral,
     <<"S", "I", "G", "N", "E", "D", "-", "O", "F", "F", "-", "B", "Y", ":">>,
     <<"C", "c", ":", " ", "B">>,
     <<"A">>, <<" ">>, <<"\n">>}

InitSignoff ==
    /\ IdleButRule
    /\ \E commit \in {EmptyCommit}
                        \cup CommitsWith("raw", TextsOf(SignoffPieces, MaxSignoffPieces)) :
           ruleCall = [NoRuleCall EXCEPT !.commit = commit]

NextSignoff == SignedOffBy

SpecSignoff == InitSignoff /\ [][NextSignoff]_vars

(* Several commits, one after the other, through the same evaluators: the   *)
(* patterns are created once, when the module is loaded, and every          *)
(* evaluation uses them again.                                              *)
MaxCalls == 3

ThreeSpans == <<Backtick, "a", Backtick, Backtick, "b", Backtick, Backtick, "c", Backtick>>

StatelessCommits ==
    {[EmptyCommit EXCEPT !.body = Some(ThreeSpans), !.subject = Some(<<"a">>)],
     [EmptyCommit EXCEPT !.body = Some(<<Backtick, "a", Backtick>>),
                         !.subject = Some(ThreeSpans \o ThreeSpans)],
     [EmptyCommit EXCEPT !.body = Some(<<"-", " ", "a">>),
                         !.raw = Some(SignedOffByLiteral \o <<" ", "A">>)],
     [EmptyCommit EXCEPT !.body = Some(<<"a">>), !.raw = Some(<<"a">>)]}

NextCommit(commit) ==
    /\ ruleCall.done
    /\ Len(evaluated) < MaxCalls
    /\ ruleCall' = [NoRuleCall EXCEPT !.commit = commit]
    /\ UNCHANGED <<repoVars, verCall, tagCall, cfgCall, dcoCall, evaluated, regexLastIndex,
                   restVars>>

InitStateless ==
    /\ IdleButRule
    /\ \E commit \in StatelessCommits : ruleCall = [NoRuleCall EXCEPT !.commit = commit]

NextStateless ==
    \/ BodyNoMarkdown
    \/ SubjectNoMarkdown
    \/ BodyProseOnly
    \/ SignedOffBy
    \/ \E commit \in StatelessCommits : NextCommit(commit)

SpecStateless == InitStateless /\ [][NextStateless]_vars

(* Every evaluator on commits with fields absent, empty or present. *)
FieldValues ==
    {None, Some(<<>>), Some(<<"#", " ", "a">>), Some(<<"-", " ", "a">>),
     Some(SignedOffByLiteral \o <<" ", "A">>)}

InitFields ==
    /\ IdleButRule
    /\ \E commit \in [body : FieldValues, subject : FieldValues, raw : FieldValues] :
           ruleCall = [NoRuleCall EXCEPT !.commit = commit]

NextFields == BodyNoMarkdown \/ SubjectNoMarkdown \/ BodyProseOnly \/ SignedOffBy

SpecFields == InitFields /\ [][NextFields]_vars

(***************************************************************************)
(* Signoff detection from a working directory.                              *)
(***************************************************************************)
InitDco ==
    /\ workspace = <<>>
    /\ changesetFile = None
    /\ rootPackagePrivate = FALSE
    /\ dcoFiles \in SUBSET {DirOf(cwd) : cwd \in DcoCwds}
    /\ env \in Environments
    /\ verCall = NoCall
    /\ tagCall = NoTagCall
    /\ cfgCall = NoCfgCall
    /\ dcoCall = NoDcoCall
    /\ ruleCall = NoRuleCall
    /\ IdleRest

DetectDCO(cwd) ==
    /\ ~dcoCall.done
    /\ dcoCall' = [done |-> TRUE, cwd |-> cwd, result |-> Some(detectDCO(cwd, dcoFiles))]
    /\ UNCHANGED <<repoVars, verCall, tagCall, cfgCall, ruleCall, evaluated, regexLastIndex, restVars>>

NextDco == \E cwd \in DcoCwds : DetectDCO(cwd)

SpecDco == InitDco /\ [][NextDco]_vars

(***************************************************************************)
(* Claims about the rule engine and the signoff detection.                  *)
(***************************************************************************)
(* The text a markdown rule was given, when it was given one. *)
Evaluated(rule) == ruleCall.done /\ ruleCall.rule = rule

InspectedField ==
    IF ruleCall.rule = "silk/subject-no-markdown" THEN "subject"
    ELSE IF ruleCall.rule = "silk/signed-off-by" THEN "raw"
    ELSE "body"

Inspected == ruleCall.commit[InspectedField]

MarkdownEvaluated ==
    /\ ruleCall.done
    /\ ruleCall.rule \in {"silk/body-no-markdown", "silk/subject-no-markdown"}
    /\ truthy(Inspected)

Labels(text) == Range(detectMarkdown(text).patterns)

(* The lines of a text, each with the line terminator that ends it. *)
RECURSIVE LinesOf(_)
LinesOf(text) ==
    IF text = <<>> THEN <<>>
    ELSE LET ends == {i \in 1..Len(text) : text[i] \in LineTerminators} \cup {Len(text)}
             n == CHOOSE i \in ends : \A j \in ends : i <= j
         IN  <<SubSeq(text, 1, n)>> \o LinesOf(SubSeq(text, n + 1, Len(text)))

RECURSIVE DropLeading(_, _)
DropLeading(line, S) ==
    IF line # <<>> /\ Head(line) \in S THEN DropLeading(Tail(line), S) ELSE line

(* The number of pairwise disjoint spans a text can be cut into at most; a  *)
(* span is a backquote, one or more other characters and a backquote.       *)
SpansOf(text) ==
    {<<i, j>> \in (1..Len(text)) \X (1..Len(text)) :
        /\ j > i + 1
        /\ text[i] = Backtick
        /\ text[j] = Backtick
        /\ \A m \in (i + 1)..(j - 1) : text[m] # Backtick}

SpanCount(text) ==
    LET disjoint == {S \in SUBSET SpansOf(text) :
                        \A s1 \in S : \A s2 \in S : s1 = s2 \/ s1[2] < s2[1] \/ s2[2] < s1[1]}
    IN  CHOOSE n \in 0..Len(text) :
            /\ \E S \in disjoint : Cardinality(S) = n
            /\ \A S \in disjoint : Cardinality(S) <= n

(* The categories of the specification that a text matches, bullet lists    *)
(* not being one of them, in the order of the specification.                *)
SpecifiedCategories(text) ==
    (IF headers(text) THEN <<"headers">> ELSE <<>>)
        \o (IF numberedLists(text) THEN <<"numbered lists">> ELSE <<>>)
        \o (IF codeFences(text) THEN <<"code fences">> ELSE <<>>)
        \o (IF bold(text) THEN <<"bold">> ELSE <<>>)
        \o (IF links(text) THEN <<"links">> ELSE <<>>)
        \o (IF horizontalRules(text) THEN <<"horizontal rules">> ELSE <<>>)
        \o (IF SpanCount(text) > 2 THEN <<"excessive inline code">> ELSE <<>>)

(* C13: a body whose only markdown-like content is list lines starting with *)
(* "-" or "*" or stray "-"/"*" characters has no pattern detected and       *)
(* passes body-no-markdown with (true, "").                                 *)
C13_UnorderedListsNotFlagged ==
    LET body == Get(ruleCall.commit.body)
    IN  (/\ Evaluated("silk/body-no-markdown")
         /\ truthy(ruleCall.commit.body)
         /\ SpecifiedCategories(body) = <<>>
         /\ \A i \in 1..Len(body) : body[i] # Backtick)
            => /\ ~detectMarkdown(body).hasMarkdown
               /\ ruleCall.result = Pass

(* C14: "numbered lists" is among the detected patterns exactly when some   *)
(* line, after its leading spaces and tabs, starts with one or more digits, *)
(* a "." and a whitespace character.                                        *)
NumberedLine(line) ==
    LET rest == DropLeading(line, {" ", "\t"})
        afterDigits == DropLeading(rest, Digits)
    IN  /\ Len(afterDigits) < Len(rest)
        /\ Len(afterDigits) >= 2
        /\ afterDigits[1] = "."
        /\ afterDigits[2] \in Whitespace

C14_NumberedListsIffNumberedLine ==
    MarkdownEvaluated
        => LET text == Get(Inspected)
           IN  /\ "numbered lists" \in Labels(text)
                      <=> \E n \in 1..Len(LinesOf(text)) : NumberedLine(LinesOf(text)[n])
               /\ "numbered lists" \in Labels(text) => ~ruleCall.result.valid

(* A number and "." inside a line, after a word: not a numbered list. *)
C14_Witness ==
    /\ Evaluated("silk/body-no-markdown")
    /\ ruleCall.commit.body = Some(<<"a", "1", ".", " ">>)
    /\ ruleCall.result = Pass

(* C15: the markdown rules answer (true, "") exactly when none of headers,  *)
(* numbered lists, code fences, bold, links, horizontal rules and inline    *)
(* code matches, and otherwise (false, "<field> contains markdown           *)
(* formatting: " and the names of exactly the matching ones, in that order, *)
(* joined with ", ").                                                       *)
C15_AllMatchingCategoriesReported ==
    MarkdownEvaluated
        => LET expected == SpecifiedCategories(Get(Inspected))
           IN  ruleCall.result =
                   IF Len(expected) = 0 THEN Pass
                   ELSE Fail(InspectedField \o " contains markdown formatting: "
                                 \o join(expected, ", "))

(* C16: "excessive inline code" is among the detected patterns exactly when *)
(* the text has more than two backquote-delimited spans; with at most two   *)
(* spans and no other pattern the rule passes, with exactly three it fails. *)
C16_InlineCodeFlaggedByCount ==
    MarkdownEvaluated
        => LET text == Get(Inspected)
               others == Labels(text) \ {"excessive inline code"}
           IN  /\ "excessive inline code" \in Labels(text) <=> SpanCount(text) > 2
               /\ SpanCount(text) <= 2 /\ others = {} => ruleCall.result = Pass
               /\ SpanCount(text) = 3
                      => /\ "excessive inline code" \in Labels(text)
                         /\ ~ruleCall.result.valid

C16_Witness ==
    /\ Evaluated("silk/subject-no-markdown")
    /\ SpanCount(Get(ruleCall.commit.subject)) = 3
    /\ ruleCall.result = Fail("subject contains markdown formatting: excessive inline code")

(* C17: body-prose-only fails exactly when some line of the body, after its *)
(* leading spaces and tabs, starts with "-", "*", the bullet glyph, or      *)
(* digits and one of ".", ")", ":", and a whitespace character follows the  *)
(* marker; otherwise it passes.                                             *)
ListLine(line) ==
    LET rest == DropLeading(line, {" ", "\t"})
        afterDigits == DropLeading(rest, Digits)
    IN  \/ /\ Len(rest) >= 2
           /\ rest[1] \in {"-", "*", Bullet}
           /\ rest[2] \in Whitespace
        \/ /\ Len(afterDigits) < Len(rest)
           /\ Len(afterDigits) >= 2
           /\ afterDigits[1] \in {".", ")", ":"}
           /\ afterDigits[2] \in Whitespace

C17_ProseOnlyFailsIffListLine ==
    Evaluated("silk/body-prose-only") /\ truthy(ruleCall.commit.body)
        => LET lines == LinesOf(Get(ruleCall.commit.body))
           IN  IF \E n \in 1..Len(lines) : ListLine(lines[n])
               THEN ~ruleCall.result.valid /\ ~ruleCall.result.threw
               ELSE ruleCall.result = Pass

(* A "1) " marker at the start of the second line. *)
C17_Witness ==
    /\ Evaluated("silk/body-prose-only")
    /\ ruleCall.commit.body = Some(<<"\n", "1", ")", " ">>)
    /\ ruleCall.result = Fail("body should be prose paragraphs, not lists")

(* C18: the signoff rule passes exactly when some single line of the raw    *)
(* message starts with "signed-off-by:" in any casing and has at least one  *)
(* more character on that same line; otherwise, and when raw is absent or   *)
(* empty, it fails with "message must be signed off".                       *)
SignoffLine(line) ==
    /\ literalAtIgnoreCase(line, 1, SignedOffByLiteral)
    /\ \E k \in (Len(SignedOffByLiteral) + 1)..Len(line) : line[k] \notin LineTerminators

C18_SignoffIffTrailerLineWithValue ==
    Evaluated("silk/signed-off-by")
        => LET raw == ruleCall.commit.raw
               lines == IF IsSome(raw) THEN LinesOf(Get(raw)) ELSE <<>>
           IN  ruleCall.result =
                   IF \E n \in 1..Len(lines) : SignoffLine(lines[n]) THEN Pass
                   ELSE Fail("message must be signed off")

(* C19: no evaluator throws, and the two markdown rules and the prose rule  *)
(* answer (true, "") when the field they read is absent or empty, whatever  *)
(* the other fields are.                                                    *)
C19_MissingFieldsTolerated ==
    ruleCall.done
        => /\ ~ruleCall.result.threw
           /\ (ruleCall.rule # "silk/signed-off-by" /\ ~truthy(Inspected))
                  => ruleCall.result = Pass

C19_Witness ==
    /\ Evaluated("silk/body-no-markdown")
    /\ ruleCall.commit.body = None
    /\ ruleCall.commit.subject = Some(<<"#", " ", "a">>)
    /\ ruleCall.commit.raw = None
    /\ ruleCall.result = Pass

(* C20, as claimed: detectDCO returns a value, and it returns false when    *)
(* no root is resolved from cwd, whatever files cwd holds.                  *)
RootResolved(cwd) == ~findProjectRoot(cwd).threw /\ IsSome(findProjectRoot(cwd).root)

C21_LookupErrorPropagates ==
    verCall.op # "none"
        => /\ verCall.threw <=> findProjectRoot(verCall.cwd).threw
           /\ verCall.threw => verCall.strategy = None /\ verCall.format = None
           /\ ~verCall.threw
                  => IF verCall.op = "detectVersioningStrategy"
                     THEN IsSome(verCall.strategy)
                     ELSE IsSome(verCall.format)

C21_Witness ==
    /\ verCall.op = "detectReleaseFormat"
    /\ verCall.cwd = "outside"
    /\ Len(workspace) = 2
    /\ verCall.threw
    /\ verCall.format = None

(* C22: when the lookup gives no root without raising,                       *)
(* detectVersioningStrategy returns the single strategy with no packages, no *)
(* changeset config, no fixed group and the explanation "No project root     *)
(* found", whatever the workspace and the changeset file hold.               *)
C22_NoRootDegradesToSingle ==
    (/\ verCall.op = "detectVersioningStrategy"
     /\ ~findProjectRoot(verCall.cwd).threw
     /\ findProjectRoot(verCall.cwd).root = None)
        => /\ ~verCall.threw
           /\ verCall.strategy =
                  Some([type |-> "single", needsPerPackageTags |-> FALSE,
                        allPackages |-> <<>>, publishablePackages |-> <<>>,
                        changesetConfig |-> None, fixedGroup |-> None,
                        isMonorepo |-> FALSE, isRootPrivate |-> FALSE,
                        explanation |-> "No project root found"])

C22_Witness ==
    /\ verCall.op = "detectVersioningStrategy"
    /\ verCall.cwd = "noroot"
    /\ Len(workspace) = 2
    /\ IsSome(changesetFile)
    /\ rootPackagePrivate
    /\ IsSome(verCall.strategy)
    /\ Get(verCall.strategy).explanation = "No project root found"

(***************************************************************************)
(* The init and check commands.  A file content is a sequence of pieces of  *)
(* text: a marker, a stretch of the generated script, or one character.     *)
(* No stretch of the script begins or ends with whitespace, so whitespace   *)
(* is always a piece of its own.                                            *)
(***************************************************************************)
BEGIN_MARKER == "# --- BEGIN SAVVY-COMMIT MANAGED SECTION ---"
END_MARKER == "# --- END SAVVY-COMMIT MANAGED SECTION ---"
Quote == "\""

(* The script from its first line down to the line that opens the case. *)
SCRIPT_HEAD == "# DO NOT EDIT between these markers ... case \"$PM\" in"
CONFIG_FLAG == "commitlint --config \"$ROOT/"
EDIT_ARG == "--edit \"$1\" ;;"
SHEBANG == "#!/usr/bin/env sh"
HOOK_COMMENTS == "# Commit-msg hook with savvy-commit managed section ..."

(* The pieces that hold a double quote. *)
HasQuote(piece) == piece \in {Quote, SCRIPT_HEAD, CONFIG_FLAG, EDIT_ARG}

(* One branch of the case: the runner and the commitlint invocation. *)
runCase(runner, configPath) ==
    <<" ", " ", runner, " ", CONFIG_FLAG>> \o configPath \o <<Quote, " ", EDIT_ARG, "\n">>

generateManagedContent(configPath) ==
    <<SCRIPT_HEAD, "\n">>
        \o runCase("pnpm) pnpm dlx", configPath)
        \o runCase("yarn) yarn dlx", configPath)
        \o runCase("bun)  bun x", configPath)
        \o runCase("*)    npx --no --", configPath)
        \o <<"esac", "\n", "\n", "fi">>

generateFullHookContent(configPath) ==
    <<SHEBANG, "\n", HOOK_COMMENTS, "\n", "\n", BEGIN_MARKER, "\n">>
        \o generateManagedContent(configPath)
        \o <<"\n", END_MARKER, "\n">>

(* String.prototype.indexOf, counting from 0, -1 when there is none. *)
indexOf(content, piece) ==
    IF \E i \in 1..Len(content) : content[i] = piece
    THEN (CHOOSE i \in 1..Len(content) :
              content[i] = piece /\ \A j \in 1..(i - 1) : content[j] # piece) - 1
    ELSE -1

(* String.prototype.slice(from, to), counting from 0. *)
slice(content, from, to) == SubSeq(content, from + 1, to)

extractManagedSection(content) ==
    LET beginIndex == indexOf(content, BEGIN_MARKER)
        endIndex == indexOf(content, END_MARKER)
    IN  IF beginIndex = -1 \/ endIndex = -1 \/ endIndex <= beginIndex
        THEN [beforeSection |-> content, managedSection |-> <<>>, afterSection |-> <<>>,
              found |-> FALSE]
        ELSE [beforeSection |-> slice(content, 0, beginIndex),
              managedSection |-> slice(content, beginIndex, endIndex + 1),
              afterSection |-> slice(content, endIndex + 1, Len(content)),
              found |-> TRUE]

RECURSIVE trimEnd(_)
trimEnd(content) ==
    IF content # <<>> /\ content[Len(content)] \in Whitespace
    THEN trimEnd(SubSeq(content, 1, Len(content) - 1))
    ELSE content

updateManagedSection(existingContent, configPath) ==
    LET section == extractManagedSection(existingContent)
        newManagedSection ==
            <<BEGIN_MARKER, "\n">> \o generateManagedContent(configPath) \o <<"\n", END_MARKER>>
    IN  IF section.found
        THEN section.beforeSection \o newManagedSection \o section.afterSection
        ELSE trimEnd(existingContent) \o <<"\n", "\n">> \o newManagedSection \o <<"\n">>

CONFIG_CONTENT == <<"import { CommitlintConfig } ...", "\n", "\n",
                    "export default CommitlintConfig.silk();", "\n">>

(* path.dirname of a relative path: what is before its last "/", or ".". *)
dirname(path) ==
    IF \E i \in 1..Len(path) : path[i] = "/"
    THEN SubSeq(path, 1, (CHOOSE i \in 1..Len(path) :
                              path[i] = "/" /\ \A j \in (i + 1)..Len(path) : path[j] # "/") - 1)
    ELSE <<".">>

HUSKY_DIR == <<".", "h", "u", "s", "k", "y">>

(* The hook file init leaves for a relative config path. *)
hookAfterInit(existing, force, config) ==
    IF IsSome(existing) /\ ~force
    THEN updateManagedSection(Get(existing).content, config)
    ELSE generateFullHookContent(config)

(* Variant: --force is not looked at when the config file exists. *)
configAfterInit_KeepWithForce(existing, force) ==
    IF IsSome(existing) THEN existing ELSE Some(CONFIG_CONTENT)

(* The config file init leaves at the config path. *)
configAfterInit(existing, force) ==
    IF IsSome(existing) /\ ~force THEN existing ELSE Some(CONFIG_CONTENT)

(* Variant: the path is checked after the hook has been written. *)
rejectsBeforeWriting_Late(config) == FALSE

(* The absolute path is refused before anything is written. *)
rejectsBeforeWriting(config) == startsWith(config, "/")

(* The directories init makes: .husky for a new hook, and the directory of  *)
(* the config file when it writes one below the root.                       *)
dirsAfterInit(force, config) ==
    dirs
        \cup (IF IsSome(hookFile) THEN {} ELSE {HUSKY_DIR})
        \cup (IF (IsSome(configFiles[config]) /\ ~force) \/ dirname(config) = <<".">>
              THEN {} ELSE {dirname(config)})

MaxRuns == 2

InitCommand(force, config) ==
    /\ cliCall.runs < MaxRuns
    /\ IF rejectsBeforeWriting(config)
       THEN /\ cliCall' = [cmd |-> "init", force |-> force, config |-> config,
                           before |-> hookFile, failed |-> TRUE, report |-> "none",
                           runs |-> cliCall.runs + 1]
            /\ UNCHANGED <<hookFile, configFiles, dirs>>
       ELSE /\ hookFile' = Some([content |-> hookAfterInit(hookFile, force, config),
                                 executable |-> TRUE])
            /\ configFiles' = [configFiles EXCEPT
                                   ![config] = configAfterInit(configFiles[config], force)]
            /\ dirs' = dirsAfterInit(force, config)
            /\ cliCall' = [cmd |-> "init", force |-> force, config |-> config,
                           before |-> hookFile, failed |-> startsWith(config, "/"),
                           report |-> "none", runs |-> cliCall.runs + 1]
    /\ UNCHANGED <<repoVars, verCall, tagCall, cfgCall, dcoCall, ruleCall, evaluated,
                   regexLastIndex, promptCall>>

(* The first match of commitlint --config "$ROOT/([^"]+)": the pieces       *)
(* between the flag and the next double quote, when there is at least one.  *)
pathAfterFlag(content, i) ==
    LET quoteAt == CHOOSE j \in (i + 1)..(Len(content) + 1) :
                       /\ j = Len(content) + 1 \/ HasQuote(content[j])
                       /\ \A k \in (i + 1)..(j - 1) : ~HasQuote(content[k])
    IN  IF quoteAt <= Len(content) /\ content[quoteAt] = Quote /\ quoteAt > i + 1
        THEN Some(SubSeq(content, i + 1, quoteAt - 1))
        ELSE None

extractConfigPathFromManaged(managedContent) ==
    LET starts == {i \in 1..Len(managedContent) :
                      managedContent[i] = CONFIG_FLAG /\ IsSome(pathAfterFlag(managedContent, i))}
    IN  IF starts = {} THEN None
        ELSE pathAfterFlag(managedContent, CHOOSE i \in starts : \A j \in starts : i <= j)

(* String.prototype.trim and replace(/\s+/g, " "). *)
RECURSIVE collapseWhitespace(_)
collapseWhitespace(content) ==
    IF content = <<>> THEN <<>>
    ELSE IF Head(content) \in Whitespace
    THEN <<" ">> \o collapseWhitespace(DropLeading(Tail(content), Whitespace))
    ELSE <<Head(content)>> \o collapseWhitespace(Tail(content))

normalizeWhitespace(content) ==
    collapseWhitespace(trimEnd(DropLeading(content, Whitespace)))

checkManagedSectionStatus(existingManaged) ==
    LET configPath == extractConfigPathFromManaged(existingManaged)
    IN  IF ~IsSome(configPath)
        THEN [isUpToDate |-> FALSE, configPath |-> None, needsUpdate |-> TRUE]
        ELSE LET expectedContent ==
                     <<BEGIN_MARKER, "\n">> \o generateManagedContent(Get(configPath))
                         \o <<"\n", END_MARKER>>
                 isUpToDate == normalizeWhitespace(existingManaged)
                                   = normalizeWhitespace(expectedContent)
             IN  [isUpToDate |-> isUpToDate, configPath |-> configPath,
                  needsUpdate |-> ~isUpToDate]

(* What check says of the managed section. *)
managedSectionReport(hook) ==
    IF ~IsSome(hook) THEN "no hook"
    ELSE LET section == extractManagedSection(Get(hook).content)
         IN  IF ~section.found THEN "not found"
             ELSE IF checkManagedSectionStatus(section.managedSection).isUpToDate
             THEN "up-to-date"
             ELSE "outdated"

CheckCommand ==
    /\ cliCall.cmd # "check"
    /\ cliCall' = [cliCall EXCEPT !.cmd = "check", !.report = managedSectionReport(hookFile)]
    /\ UNCHANGED <<repoVars, verCall, tagCall, cfgCall, dcoCall, ruleCall, evaluated,
                   regexLastIndex, promptCall, hookFile, configFiles, dirs>>

(* Hook files to start from: markers, a line of custom text, a section     *)
(* that init wrote for a config path and a section with other content.      *)
MaxHookPieces == 3

ManagedSectionFor(configPath) ==
    <<BEGIN_MARKER, "\n">> \o generateManagedContent(configPath) \o <<"\n", END_MARKER>>

HookPieces ==
    {<<BEGIN_MARKER>>, <<END_MARKER>>, <<"x", "\n">>,
     ManagedSectionFor(PathLibA),
     <<BEGIN_MARKER, "\n", "old content", "\n", END_MARKER>>}

InitCli ==
    /\ EmptyRepo
    /\ verCall = NoCall
    /\ tagCall = NoTagCall
    /\ cfgCall = NoCfgCall
    /\ dcoCall = NoDcoCall
    /\ ruleCall = NoRuleCall
    /\ evaluated = <<>>
    /\ regexLastIndex = 0
    /\ promptCall = NoPromptCall
    /\ hookFile \in {None} \cup {Some([content |-> content, executable |-> FALSE]) :
                                   content \in TextsOf(HookPieces, MaxHookPieces)}
    /\ dirs = IF IsSome(hookFile) THEN {HUSKY_DIR} ELSE {}
    /\ \E existing \in {None, Some(<<"// existing config">>)} :
           configFiles = [path \in ConfigPaths |-> IF path = PathA THEN existing ELSE None]
    /\ cliCall = NoCliCall

NextCli ==
    \/ \E force \in BOOLEAN : \E config \in ConfigPaths : InitCommand(force, config)
    \/ CheckCommand

SpecCli == InitCli /\ [][NextCli]_vars

(* ---------------------------------------------------------------------- *)
(* Claims on the init and check commands.                                   *)
(* ---------------------------------------------------------------------- *)

(* A step of init: the only steps that count a run. *)
InitStep == cliCall'.cmd = "init" /\ cliCall'.runs = cliCall.runs + 1

InitDone == cliCall.cmd = "init" /\ cliCall.runs > 0

(* The pairs (i, j) of a BEGIN marker followed later by an END marker. *)
MarkerPairs(content) ==
    {pair \in (1..Len(content)) \X (1..Len(content)) :
        /\ pair[1] < pair[2]
        /\ content[pair[1]] = BEGIN_MARKER
        /\ content[pair[2]] = END_MARKER}

hasMarker(content) ==
    \E i \in 1..Len(content) : content[i] \in {BEGIN_MARKER, END_MARKER}

(* C23: init without --force on a hook holding a BEGIN marker followed      *)
(* later by an END marker keeps the text before BEGIN and the text after    *)
(* END as they were and puts the section generated for the config path      *)
(* between them.                                                            *)
C23_OnlyManagedSectionReplaced ==
    (/\ InitDone
     /\ ~cliCall.failed
     /\ ~cliCall.force
     /\ IsSome(cliCall.before)
     /\ MarkerPairs(Get(cliCall.before).content) # {})
        => \E pair \in MarkerPairs(Get(cliCall.before).content) :
               LET old == Get(cliCall.before).content
               IN  Get(hookFile).content
                       = SubSeq(old, 1, pair[1] - 1)
                             \o ManagedSectionFor(cliCall.config)
                             \o SubSeq(old, pair[2] + 1, Len(old))

(* C24: init with a config path that starts with "/" fails and leaves the   *)
(* hook file, the config files and the directories as they were, with and   *)
(* without --force.                                                         *)
C24_AbsolutePathWritesNothing ==
    [][(InitStep /\ startsWith(cliCall'.config, "/"))
           => (cliCall'.failed /\ UNCHANGED <<hookFile, configFiles, dirs>>)]_vars

(* An absolute path was refused with --force while a hook file and a        *)
(* config file exist.                                                       *)
C24_Witness ==
    /\ InitDone
    /\ cliCall.failed
    /\ cliCall.force
    /\ cliCall.config = PathAbsolute
    /\ IsSome(hookFile)
    /\ ~Get(hookFile).executable
    /\ IsSome(configFiles[PathA])
    /\ ~IsSome(configFiles[PathAbsolute])

(* C25: a successful init without --force leaves an existing config file,   *)
(* and every other config file, as it was while the hook exists afterwards; *)
(* with --force the file at the config path holds the generated config.     *)
C25_ConfigKeptUnlessForce ==
    [][(InitStep /\ ~cliCall'.failed)
           => /\ (IsSome(configFiles[cliCall'.config]) /\ ~cliCall'.force)
                     => (configFiles' = configFiles /\ IsSome(hookFile'))
              /\ cliCall'.force
                     => configFiles'[cliCall'.config] = Some(CONFIG_CONTENT)
              /\ \A path \in ConfigPaths \ {cliCall'.config} :
                     configFiles'[path] = configFiles[path]]_vars

(* Two runs without --force on an existing config file, which is still the  *)
(* one from before the first run, and the hook was updated.                 *)
C25_Witness ==
    /\ InitDone
    /\ cliCall.runs = 2
    /\ ~cliCall.force
    /\ ~cliCall.failed
    /\ cliCall.config = PathA
    /\ configFiles[PathA] = Some(<<"// existing config">>)
    /\ IsSome(hookFile)
    /\ Get(hookFile).executable

(* C29: a second run of init with the same config path and without --force  *)
(* leaves the hook file as the first run left it.                           *)
C29_SecondRunKeepsHook ==
    [][(/\ cliCall.cmd = "init"
        /\ ~cliCall.failed
        /\ ~cliCall.force
        /\ InitStep
        /\ ~cliCall'.force
        /\ cliCall'.config = cliCall.config)
           => hookFile' = hookFile]_vars

(* What the section between the markers says and what init generates for    *)
(* the config path the section names, compared modulo whitespace.           *)
sectionDiffers(hook) ==
    LET section == extractManagedSection(Get(hook).content).managedSection
        configPath == extractConfigPathFromManaged(section)
    IN  \/ ~IsSome(configPath)
        \/ normalizeWhitespace(section)
               # normalizeWhitespace(ManagedSectionFor(Get(configPath)))

(* C30: a check that follows a successful init, started from an absent      *)
(* hook, a hook without markers or a hook with a managed section, reports   *)
(* up-to-date; and check reports outdated only for a section that differs,  *)
(* modulo whitespace, from the one generated for the path it names.         *)
C30_CheckAfterInitUpToDate ==
    /\ (/\ cliCall.cmd = "check"
        /\ cliCall.runs > 0
        /\ ~cliCall.failed
        /\ \/ ~IsSome(cliCall.before)
           \/ ~hasMarker(Get(cliCall.before).content)
           \/ MarkerPairs(Get(cliCall.before).content) # {})
           => cliCall.report = "up-to-date"
    /\ (cliCall.cmd = "check" /\ cliCall.report = "outdated")
           => (/\ IsSome(hookFile)
               /\ extractManagedSection(Get(hookFile).content).found
               /\ sectionDiffers(hookFile))

(* ---------------------------------------------------------------------- *)
(* Claim on evaluations that follow one another.                            *)
(* ---------------------------------------------------------------------- *)

formatCommitMessage_NoBreakingMark(answers) ==
    LET scopePart == IF answers.scope # "" THEN "(" \o answers.scope \o ")" ELSE ""
        header == answers.type \o scopePart \o ": " \o answers.subject
        parts ==
            <<header>>
                \o (IF answers.body # "" THEN <<"", answers.body>> ELSE <<>>)
                \o (IF answers.isBreaking /\ answers.breakingBody # ""
                    THEN <<"", "BREAKING CHANGE: " \o answers.breakingBody>> ELSE <<>>)
                \o (IF answers.isIssueAffected /\ answers.issues # ""
                    THEN <<"", answers.issues>> ELSE <<>>)
    IN  join(parts, "\n")

(* A question that was not asked leaves no value; the tests `if (body)`     *)
(* take that as they take the empty string, which stands for both here.     *)
formatCommitMessage(answers) ==
    LET scopePart == IF answers.scope # "" THEN "(" \o answers.scope \o ")" ELSE ""
        breakingMark == IF answers.isBreaking THEN "!" ELSE ""
        header == answers.type \o scopePart \o breakingMark \o ": " \o answers.subject
        parts ==
            <<header>>
                \o (IF answers.body # "" THEN <<"", answers.body>> ELSE <<>>)
                \o (IF answers.isBreaking /\ answers.breakingBody # ""
                    THEN <<"", "BREAKING CHANGE: " \o answers.breakingBody>> ELSE <<>>)
                \o (IF answers.isIssueAffected /\ answers.issues # ""
                    THEN <<"", answers.issues>> ELSE <<>>)
    IN  join(parts, "\n")

(* Variant: the handler of catch throws again what it was given. *)
catchOutcome_Rethrows(reason) == "rejected"

(* The handler of catch has an empty body: its promise is fulfilled. *)
catchOutcome(reason) == "resolved"

(* The answers cz.prompt can resolve with: the text of a breaking change    *)
(* and the issues are asked only after their yes/no question was answered   *)
(* with yes.                                                                *)
CommitAnswers ==
    {answers \in [type : {"feat", "fix"}, scope : {"", "api"}, subject : {"add x"},
                  body : {"", "b"}, isBreaking : BOOLEAN, breakingBody : {"", "x"},
                  isIssueAffected : BOOLEAN, issues : {"", "closes #1"}] :
        /\ ~answers.isBreaking => answers.breakingBody = ""
        /\ ~answers.isIssueAffected => answers.issues = ""}

(* prompter builds the questions, starts the prompt, chains the two         *)
(* handlers and returns. The commit callback is the caller's: it may throw. *)
Prompter(commitThrows) ==
    /\ promptCall.promise = "none"
    /\ promptCall' = [promptCall EXCEPT !.promise = "pending", !.then = "pending",
                                        !.catch = "pending", !.commitThrows = commitThrows]
    /\ UNCHANGED <<repoVars, verCall, tagCall, cfgCall, dcoCall, ruleCall, evaluated,
                   regexLastIndex, cliVars>>

PromptResolves(answers) ==
    /\ promptCall.promise = "pending"
    /\ promptCall' = [promptCall EXCEPT !.promise = "resolved", !.answers = Some(answers)]
    /\ UNCHANGED <<repoVars, verCall, tagCall, cfgCall, dcoCall, ruleCall, evaluated,
                   regexLastIndex, cliVars>>

PromptRejects ==
    /\ promptCall.promise = "pending"
    /\ promptCall' = [promptCall EXCEPT !.promise = "rejected"]
    /\ UNCHANGED <<repoVars, verCall, tagCall, cfgCall, dcoCall, ruleCall, evaluated,
                   regexLastIndex, cliVars>>

(* The handler given to then: format the message and call commit. *)
ThenHandler ==
    /\ promptCall.promise = "resolved"
    /\ promptCall.then = "pending"
    /\ promptCall' = [promptCall EXCEPT
                         !.commits = Append(@, formatCommitMessage(Get(promptCall.answers))),
                         !.then = IF promptCall.commitThrows THEN "rejected" ELSE "resolved"]
    /\ UNCHANGED <<repoVars, verCall, tagCall, cfgCall, dcoCall, ruleCall, evaluated,
                   regexLastIndex, cliVars>>

(* then has no handler for a rejection: it hands the rejection on. *)
ThenSkipped ==
    /\ promptCall.promise = "rejected"
    /\ promptCall.then = "pending"
    /\ promptCall' = [promptCall EXCEPT !.then = "rejected"]
    /\ UNCHANGED <<repoVars, verCall, tagCall, cfgCall, dcoCall, ruleCall, evaluated,
                   regexLastIndex, cliVars>>

(* The handler given to catch. *)
CatchHandler ==
    /\ promptCall.then = "rejected"
    /\ promptCall.catch = "pending"
    /\ promptCall' = [promptCall EXCEPT !.catch = catchOutcome("rejected")]
    /\ UNCHANGED <<repoVars, verCall, tagCall, cfgCall, dcoCall, ruleCall, evaluated,
                   regexLastIndex, cliVars>>

(* catch hands a fulfilled promise on. *)
CatchSkipped ==
    /\ promptCall.then = "resolved"
    /\ promptCall.catch = "pending"
    /\ promptCall' = [promptCall EXCEPT !.catch = "resolved"]
    /\ UNCHANGED <<repoVars, verCall, tagCall, cfgCall, dcoCall, ruleCall, evaluated,
                   regexLastIndex, cliVars>>

InitPrompter ==
    /\ IdleButRule
    /\ ruleCall = NoRuleCall

NextPrompter ==
    \/ \E commitThrows \in BOOLEAN : Prompter(commitThrows)
    \/ \E answers \in CommitAnswers : PromptResolves(answers)
    \/ PromptRejects
    \/ ThenHandler
    \/ ThenSkipped
    \/ CatchHandler
    \/ CatchSkipped

SpecPrompter == InitPrompter /\ [][NextPrompter]_vars

(* The reactions of a settled promise are run: none of them waits for ever. *)
FairSpecPrompter ==
    /\ SpecPrompter
    /\ WF_vars(ThenHandler)
    /\ WF_vars(ThenSkipped)
    /\ WF_vars(CatchHandler)
    /\ WF_vars(CatchSkipped)

(* ---------------------------------------------------------------------- *)
(* Claim on the prompter.                                                   *)
(* ---------------------------------------------------------------------- *)

(* The paragraphs after the header: body, breaking change, issues. *)
ExpectedParagraphs(answers) ==
    (IF answers.body # "" THEN <<answers.body>> ELSE <<>>)
        \o (IF answers.isBreaking /\ answers.breakingBody # ""
            THEN <<"BREAKING CHANGE: " \o answers.breakingBody>> ELSE <<>>)
        \o (IF answers.isIssueAffected /\ answers.issues # ""
            THEN <<answers.issues>> ELSE <<>>)

ExpectedHeader(answers) ==
    answers.type
        \o (IF answers.scope = "" THEN "" ELSE "(" \o answers.scope \o ")")
        \o (IF answers.isBreaking THEN "!: " ELSE ": ")
        \o answers.subject

ExpectedMessage(answers) ==
    join(<<ExpectedHeader(answers)>> \o ExpectedParagraphs(answers), "\n\n")

CommitCallbackSafe ==
    /\ Len(promptCall.commits) <= 1
    /\ promptCall.commits # <<>>
           => /\ promptCall.promise = "resolved"
              /\ promptCall.commits[1] = ExpectedMessage(Get(promptCall.answers))
    /\ promptCall.promise = "rejected" => promptCall.commits = <<>>
    /\ promptCall.catch # "rejected"

(* C28: the commit callback is called at most once, only after the prompt   *)
(* promise has resolved and with the message type[(scope)][!]: subject      *)
(* followed by the body, BREAKING CHANGE and issue paragraphs that are      *)
(* present; once the promise has resolved the callback is called; after a   *)
(* rejection it is never called; and the chain always ends fulfilled, so    *)
(* that no error leaves prompter.                                           *)
C28_CommitOnceAfterResolve ==
    /\ []CommitCallbackSafe
    /\ (promptCall.promise = "resolved") ~> (Len(promptCall.commits) = 1)
    /\ (promptCall.promise \in {"resolved", "rejected"}) ~> (promptCall.catch = "resolved")

(* A breaking feature with scope, body, breaking text and issues was        *)
(* committed by a callback that threw, and the chain ended fulfilled.       *)
C28_Witness ==
    /\ promptCall.promise = "resolved"
    /\ promptCall.commitThrows
    /\ promptCall.catch = "resolved"
    /\ promptCall.commits
           = <<"feat(api)!: add x\n\nb\n\nBREAKING CHANGE: x\n\ncloses #1">>

====
